---- MODULE Spec2Model ----
(***************************************************************************)
(* A model of task_scheduler.py: the task registry produced by             *)
(* parse_tasks, build_graph, validate_graph (acyclicity check, topological *)
(* order, critical-path dynamic program) and run_tasks (a thread pool whose*)
(* units block on the futures of their dependencies).                      *)
(***************************************************************************)
EXTENDS Integers, Sequences, FiniteSets, TLC

\* ------------------------------------------------------------------------
\* Bounds of the model
\* ------------------------------------------------------------------------

\* Rows of the task file read by the analysis specification.
NumTasks == 3
\* Dependency references in the whole task file (analysis specification).
MaxRefs == 3
\* Largest duration written in a task file.
MaxDuration == 1

\* Task names, in the order the rows of a task file carry them: row k defines
\* the k-th name.  The code compares names only for equality.
AllNames == <<"A", "B", "C", "D", "E", "F">>

\* The names of the task files the analysis specification reads.
AnalyzeNames == SubSeq(AllNames, 1, NumTasks)

\* The names of the task files the executor specification reads.
RunNames == <<"A", "B", "C">>

\* Python's None, where a name could stand and where a record could stand.
NoName == "None"
None == [none |-> TRUE]

Range(s) == {s[i] : i \in 1..Len(s)}

\* ------------------------------------------------------------------------
\* The registry: a dict in insertion order, here a sequence of rows
\* ------------------------------------------------------------------------

Keys(tasks) == {tasks[i].name : i \in 1..Len(tasks)}

Row(tasks, name) == tasks[CHOOSE i \in 1..Len(tasks) : tasks[i].name = name]

\* ------------------------------------------------------------------------
\* parse_tasks
\* ------------------------------------------------------------------------

\* The dependency cells of a row: every sequence of k names of S, a name
\* as often as the row repeats it.
DepCells(S, k) == [1..k -> S]

\* Dependency cells in the rows read so far.
RECURSIVE RefCount(_)
RefCount(rows) == IF rows = <<>> THEN 0 ELSE Len(Head(rows).deps) + RefCount(Tail(rows))

\* Dependency cells in the rows read so far, but for the row of name.
RefCountBut(rows, name) ==
    RefCount(SelectSeq(rows, LAMBDA r : r.name # name))

\* tasks[name] = {"duration": duration, "deps": dependencies}: a new key is
\* added at the end, a key already there keeps its place and gets the new
\* value.
StoreRow(rows, name, duration, deps) ==
    LET row == [name |-> name, duration |-> duration, deps |-> deps] IN
    IF name \in Keys(rows)
    THEN [i \in 1..Len(rows) |-> IF rows[i].name = name THEN row ELSE rows[i]]
    ELSE Append(rows, row)

\* ------------------------------------------------------------------------
\* networkx.DiGraph: nodes, adjacency and node attributes in insertion order
\* ------------------------------------------------------------------------

EmptyGraph == [nodes |-> <<>>, pred |-> <<>>, succ |-> <<>>, duration |-> <<>>]

HasNode(G, n) == n \in Range(G.nodes)

\* G.add_node(n) without attributes, as add_edge does for a missing endpoint.
TouchNode(G, n) ==
    IF HasNode(G, n) THEN G
    ELSE [G EXCEPT !.nodes = Append(@, n),
                   !.pred = (n :> <<>>) @@ @,
                   !.succ = (n :> <<>>) @@ @]

\* G.add_node(n, duration=d)
AddNode(G, n, d) ==
    LET H == TouchNode(G, n) IN [H EXCEPT !.duration = (n :> d) @@ @]

\* The edge laid from the task to its dependency.
AddEdgeReversed(G, u, v) ==
    LET H == TouchNode(TouchNode(G, u), v) IN
    IF v \in Range(H.pred[u]) THEN H
    ELSE [H EXCEPT !.succ[v] = Append(@, u), !.pred[u] = Append(@, v)]

\* G.add_edge(u, v): both endpoints are created when missing; an edge that
\* is already there keeps its place in the adjacency order.
AddEdge(G, u, v) ==
    LET H == TouchNode(TouchNode(G, u), v) IN
    IF u \in Range(H.pred[v]) THEN H
    ELSE [H EXCEPT !.succ[u] = Append(@, v), !.pred[v] = Append(@, u)]

Edges(G) == {<<u, v>> \in Range(G.nodes) \X Range(G.nodes) : u \in Range(G.pred[v])}

\* ------------------------------------------------------------------------
\* build_graph
\* ------------------------------------------------------------------------

\* The loop of build_graph from row i, dependency j of that row, with the
\* graph built so far.  The row's node is added before its first dependency.
RECURSIVE BuildFrom(_, _, _, _)
BuildFrom(tasks, i, j, G) ==
    IF i > Len(tasks) THEN [ok |-> TRUE, G |-> G]
    ELSE LET row == tasks[i]
             H == IF j = 1 THEN AddNode(G, row.name, row.duration) ELSE G
         IN IF j > Len(row.deps) THEN BuildFrom(tasks, i + 1, 1, H)
            ELSE IF row.deps[j] \notin Keys(tasks)
                 THEN [ok |-> FALSE, task |-> row.name, missing |-> row.deps[j]]
                 ELSE BuildFrom(tasks, i, j + 1, AddEdge(H, row.deps[j], row.name))

build_graph(tasks) == BuildFrom(tasks, 1, 1, EmptyGraph)

\* ------------------------------------------------------------------------
\* networkx.topological_sort (Kahn's algorithm by generations) and
\* networkx.is_directed_acyclic_graph, as validate_graph and run_tasks use them
\* ------------------------------------------------------------------------

\* G.in_degree(): one per incoming edge, a self-loop included.
InDegree(G) == [v \in Range(G.nodes) |-> Len(G.pred[v])]

\* The nodes of s whose count in deg is zero, in the order of s.
RECURSIVE ZeroOf(_, _)
ZeroOf(s, deg) ==
    IF s = <<>> THEN <<>>
    ELSE (IF deg[Head(s)] = 0 THEN <<Head(s)>> ELSE <<>>) \o ZeroOf(Tail(s), deg)

\* for child in G.neighbors(node): the count of child drops by one, and a
\* child that reaches zero joins the next generation.
RECURSIVE VisitChildren(_, _)
VisitChildren(children, st) ==
    IF children = <<>> THEN st
    ELSE LET c == Head(children)
             d == st.indegree[c] - 1
         IN VisitChildren(Tail(children),
               [indegree |-> [st.indegree EXCEPT ![c] = d],
                zero |-> IF d = 0 THEN Append(st.zero, c) ELSE st.zero])

\* for node in this_generation
RECURSIVE VisitGeneration(_, _, _)
VisitGeneration(G, gen, st) ==
    IF gen = <<>> THEN st
    ELSE VisitGeneration(G, Tail(gen), VisitChildren(G.succ[Head(gen)], st))

\* while zero_indegree: yield the generation, compute the next one.  The
\* result holds the nodes yielded and whether indegree_map ended non-empty
\* (networkx then raises NetworkXUnfeasible).
RECURSIVE Generations(_, _, _, _)
Generations(G, gen, indegree, out) ==
    IF gen = <<>>
    THEN [order |-> out, unfeasible |-> \E v \in DOMAIN indegree : indegree[v] > 0]
    ELSE LET st == VisitGeneration(G, gen, [indegree |-> indegree, zero |-> <<>>])
         IN Generations(G, st.zero, st.indegree, out \o gen)

Kahn(G) == Generations(G, ZeroOf(G.nodes, InDegree(G)), InDegree(G), <<>>)

\* list(nx.topological_sort(G)) on a graph that passed the acyclicity check
topological_sort(G) == Kahn(G).order

\* A check that only asks whether some node could be ordered.
SomeNodeOrdered(G) == Kahn(G).order # <<>> \/ G.nodes = <<>>

\* nx.is_directed_acyclic_graph(G): the topological sort runs to its end
is_directed_acyclic_graph(G) == ~Kahn(G).unfeasible

\* ------------------------------------------------------------------------
\* validate_graph
\* ------------------------------------------------------------------------

\* The first element, whatever the keys.
FirstOf(s, key) == Head(s)

\* max(seq, key): the first element of seq, in its order, whose key is largest.
RECURSIVE ArgMaxFrom(_, _, _)
ArgMaxFrom(s, key, best) ==
    IF s = <<>> THEN best
    ELSE ArgMaxFrom(Tail(s), key, IF key[Head(s)] > key[best] THEN Head(s) ELSE best)

\* A max that keeps the last of the largest (>= in place of >).
RECURSIVE ArgMaxLastFrom(_, _, _)
ArgMaxLastFrom(s, key, best) ==
    IF s = <<>> THEN best
    ELSE ArgMaxLastFrom(Tail(s), key, IF key[Head(s)] >= key[best] THEN Head(s) ELSE best)

LastMaxByKey(s, key) == ArgMaxLastFrom(Tail(s), key, Head(s))

MaxByKey(s, key) == ArgMaxFrom(Tail(s), key, Head(s))

\* A loop that starts every node with predecessors at the finish of the node
\* the loop saw just before it, as if topo were a chain.
RECURSIVE ForwardPassChained(_, _, _)
ForwardPassChained(G, topo, st) ==
    IF topo = <<>> THEN st
    ELSE LET u == Head(topo)
             preds == G.pred[u]
             p == IF preds # <<>> THEN st.order[Len(st.order)] ELSE NoName
             earliest_start == IF preds # <<>> THEN st.earliest_finish[p] ELSE 0
         IN ForwardPassChained(G, Tail(topo),
               [earliest_finish |-> (u :> earliest_start + G.duration[u]) @@ st.earliest_finish,
                parent |-> (u :> p) @@ st.parent,
                order |-> Append(st.order, u)])

\* The loop over topo: earliest_finish and parent of every node seen so far.
RECURSIVE ForwardPass(_, _, _)
ForwardPass(G, topo, st) ==
    IF topo = <<>> THEN st
    ELSE LET u == Head(topo)
             preds == G.pred[u]
             p == IF preds # <<>> THEN MaxByKey(preds, st.earliest_finish) ELSE NoName
             earliest_start == IF preds # <<>> THEN st.earliest_finish[p] ELSE 0
         IN ForwardPass(G, Tail(topo),
               [earliest_finish |-> (u :> earliest_start + G.duration[u]) @@ st.earliest_finish,
                parent |-> (u :> p) @@ st.parent,
                order |-> Append(st.order, u)])

\* The walk up the parent links without path.reverse().
RECURSIVE BacktrackUnreversed(_, _)
BacktrackUnreversed(parent, cur) ==
    IF cur = NoName THEN <<>> ELSE <<cur>> \o BacktrackUnreversed(parent, parent[cur])

\* while cur is not None: path.append(cur); cur = parent[cur]; path.reverse()
RECURSIVE Backtrack(_, _)
Backtrack(parent, cur) ==
    IF cur = NoName THEN <<>> ELSE Append(Backtrack(parent, parent[cur]), cur)

\* An analysis that answers (0, []) for a graph without nodes.
validate_graph_or_zero(G) ==
    IF ~is_directed_acyclic_graph(G)
    THEN [ok |-> FALSE, error |-> "ValueError", message |-> "Cycle detected in task dependencies"]
    ELSE LET topo == topological_sort(G)
             st == ForwardPass(G, topo, [earliest_finish |-> <<>>, parent |-> <<>>, order |-> <<>>])
         IN IF st.order = <<>>
            THEN [ok |-> TRUE, expected_runtime |-> 0, path |-> <<>>]
            ELSE LET end == MaxByKey(st.order, st.earliest_finish)
                 IN [ok |-> TRUE,
                     expected_runtime |-> st.earliest_finish[end],
                     path |-> Backtrack(st.parent, end)]

\* validate_graph(G): the cycle error, the error of max() over no node, or
\* the pair (expected_runtime, path).
validate_graph(G) ==
    IF ~is_directed_acyclic_graph(G)
    THEN [ok |-> FALSE, error |-> "ValueError", message |-> "Cycle detected in task dependencies"]
    ELSE LET topo == topological_sort(G)
             st == ForwardPass(G, topo, [earliest_finish |-> <<>>, parent |-> <<>>, order |-> <<>>])
         IN IF st.order = <<>>
            THEN [ok |-> FALSE, error |-> "ValueError", message |-> "max() arg is an empty sequence"]
            ELSE LET end == MaxByKey(st.order, st.earliest_finish)
                 IN [ok |-> TRUE,
                     expected_runtime |-> st.earliest_finish[end],
                     path |-> Backtrack(st.parent, end)]

\* ------------------------------------------------------------------------
\* State
\* ------------------------------------------------------------------------

VARIABLES
    tasks,          \* the registry returned by parse_tasks
    args,           \* the command line flags --validate and --run
    pool,           \* max_workers of the ThreadPoolExecutor
    pc,             \* where the main thread stands
    G,              \* the graph returned by build_graph, None before
    validated,      \* what validate_graph returned under --validate
    expected,       \* what validate_graph returned under --run
    raised,         \* the exception that left main, None when there is none
    now,            \* time.perf_counter()
    start_time,     \* run_tasks: start_time
    actual_runtime, \* what run_tasks returned
    order,          \* run_tasks: what nx.topological_sort(G) yields to the loop
    submit_i,       \* run_tasks: position of the submitting loop in the order
    futures,        \* run_tasks: keys of the futures dict, in insertion order
    outcome,        \* state of the future of each submitted unit
    queue,          \* the executor's work queue
    unit,           \* where each unit of work stands
    dep_i,          \* submit(task): position in its loop over deps
    t_start,        \* submit(task): t_start
    task_timings,   \* run_tasks: task_timings
    done,           \* run_tasks: done
    join_i,         \* run_tasks: position of the loop over futures.values()
    pending_exc     \* the exception travelling through the with block's exit

mainVars == <<tasks, args, pool, G, validated, expected, raised, actual_runtime>>
execVars == <<now, start_time, order, submit_i, futures, outcome, queue, unit, dep_i,
              t_start, task_timings, done, join_i, pending_exc>>
vars == <<pc, mainVars, execVars>>

\* The durations and dependency lists, as run_tasks reads them from tasks.
Duration(t) == Row(tasks, t).duration
Deps(t) == Row(tasks, t).deps

InitMain ==
    /\ pc = "parse_tasks"
    /\ tasks = <<>>
    /\ G = None
    /\ validated = None
    /\ expected = None
    /\ raised = None
    /\ actual_runtime = None

InitExec ==
    /\ now = 0
    /\ start_time = 0
    /\ order = <<>>
    /\ submit_i = 0
    /\ futures = <<>>
    /\ outcome = <<>>
    /\ queue = <<>>
    /\ unit = <<>>
    /\ dep_i = <<>>
    /\ t_start = <<>>
    /\ task_timings = <<>>
    /\ done = {}
    /\ join_i = 0
    /\ pending_exc = None

\* ------------------------------------------------------------------------
\* main
\* ------------------------------------------------------------------------

\* The names the next row of the file may carry: one of an earlier row, or
\* the next new one.
RowNames(names) ==
    Keys(tasks) \cup (IF Len(tasks) < Len(names) THEN {names[Len(tasks) + 1]} ELSE {})

\* for row in reader: one more row of the file, its duration an integer and
\* its dependency cells names that this or another row may define.
ParseRow(names, maxRefs, durs) ==
    /\ pc = "parse_tasks"
    /\ \E name \in RowNames(names), d \in durs :
          \E k \in 0..(maxRefs - RefCountBut(tasks, name)) :
             \E ds \in DepCells(Range(names), k) :
                tasks' = StoreRow(tasks, name, d, ds)
    /\ UNCHANGED <<pc, args, pool, G, validated, expected, raised, actual_runtime, execVars>>

\* int(row[1].strip()) on a cell that is no integer: ValueError leaves main.
ParseBadRow(names) ==
    /\ pc = "parse_tasks"
    /\ RowNames(names) # {}
    /\ raised' = [error |-> "ValueError", message |-> "invalid literal for int()"]
    /\ pc' = "raised"
    /\ UNCHANGED <<tasks, args, pool, G, validated, expected, actual_runtime, execVars>>

\* The file is read to its end: return tasks.
ParseEnd ==
    /\ pc = "parse_tasks"
    /\ pc' = "build_graph"
    /\ UNCHANGED <<mainVars, execVars>>

\* G = build_graph(tasks); an unknown dependency leaves main as a ValueError.
MainBuildGraph ==
    /\ pc = "build_graph"
    /\ LET b == build_graph(tasks) IN
       IF b.ok
       THEN /\ G' = b.G
            /\ pc' = IF args.validate THEN "validate"
                     ELSE IF args.run THEN "run_validate" ELSE "exit"
            /\ UNCHANGED raised
       ELSE /\ raised' = [error |-> "ValueError", task |-> b.task, missing |-> b.missing]
            /\ pc' = "raised"
            /\ UNCHANGED G
    /\ UNCHANGED <<tasks, args, pool, validated, expected, actual_runtime, execVars>>

\* if args.validate: expected_runtime, critical_path = validate_graph(G)
MainValidate ==
    /\ pc = "validate"
    /\ LET v == validate_graph(G) IN
       IF v.ok
       THEN /\ validated' = [expected_runtime |-> v.expected_runtime, path |-> v.path]
            /\ pc' = IF args.run THEN "run_validate" ELSE "exit"
            /\ UNCHANGED raised
       ELSE /\ raised' = [error |-> v.error, message |-> v.message]
            /\ pc' = "raised"
            /\ UNCHANGED validated
    /\ UNCHANGED <<tasks, args, pool, G, expected, actual_runtime, execVars>>

\* The --run branch going on to run_tasks whatever validate_graph raised.
MainRunValidateLenient ==
    /\ pc = "run_validate"
    /\ LET v == validate_graph(G) IN
       /\ expected' = IF v.ok
                      THEN [expected_runtime |-> v.expected_runtime, path |-> v.path]
                      ELSE expected
       /\ pc' = "run_tasks"
    /\ UNCHANGED <<tasks, args, pool, G, validated, raised, actual_runtime, execVars>>

\* if args.run: expected_runtime, _ = validate_graph(G)
MainRunValidate ==
    /\ pc = "run_validate"
    /\ LET v == validate_graph(G) IN
       IF v.ok
       THEN /\ expected' = [expected_runtime |-> v.expected_runtime, path |-> v.path]
            /\ pc' = "run_tasks"
            /\ UNCHANGED raised
       ELSE /\ raised' = [error |-> v.error, message |-> v.message]
            /\ pc' = "raised"
            /\ UNCHANGED expected
    /\ UNCHANGED <<tasks, args, pool, G, validated, actual_runtime, execVars>>

\* ------------------------------------------------------------------------
\* run_tasks: the main thread
\* ------------------------------------------------------------------------

\* Bounds of the executor specification: dependency references in the task
\* file, and ticks of the clock that no sleeping unit needs (scheduling
\* delay).  The pool has from one worker to one worker per row of the file.
RunRefs == 2
MaxDelay == 1

\* The states of a concurrent.futures.Future besides holding an exception.
Pending == [state |-> "pending"]
Returned == [state |-> "result"]

\* Units handed over in the order of the rows of the file, whatever they
\* depend on.
SubmitInFileOrder == [i \in 1..Len(tasks) |-> tasks[i].name]

\* Units handed over from the last of the topological order to the first.
SubmitReversed ==
    LET topo == topological_sort(G) IN
    [i \in 1..Len(topo) |-> topo[Len(topo) + 1 - i]]

\* The order in which run_tasks hands the units to the executor: that of
\* for task in nx.topological_sort(G).
SubmitOrder == topological_sort(G)

\* done = set(); futures = {}; task_timings = {}; start_time = perf_counter()
RunTasksBegin ==
    /\ pc = "run_tasks"
    /\ start_time' = now
    /\ futures' = <<>>
    /\ task_timings' = <<>>
    /\ done' = {}
    /\ order' = SubmitOrder
    /\ submit_i' = 1
    /\ pc' = "submit"
    /\ UNCHANGED <<mainVars, now, outcome, queue, unit, dep_i, t_start, join_i, pending_exc>>

\* for task in nx.topological_sort(G): executor.submit(submit, task) puts the
\* unit on the work queue and returns its future; the loop ends at the join.
ExecutorSubmit ==
    /\ pc = "submit"
    /\ IF submit_i > Len(order)
       THEN /\ pc' = "join"
            /\ join_i' = 1
            /\ UNCHANGED <<queue, unit, outcome>>
       ELSE LET t == order[submit_i] IN
            /\ queue' = Append(queue, t)
            /\ unit' = (t :> "queued") @@ unit
            /\ outcome' = (t :> Pending) @@ outcome
            /\ pc' = "store_future"
            /\ UNCHANGED join_i
    /\ UNCHANGED <<mainVars, now, start_time, order, submit_i, futures, dep_i, t_start,
                   task_timings, done, pending_exc>>

\* futures[task] = <the future executor.submit returned>
StoreFuture ==
    /\ pc = "store_future"
    /\ futures' = Append(futures, order[submit_i])
    /\ submit_i' = submit_i + 1
    /\ pc' = "submit"
    /\ UNCHANGED <<mainVars, now, start_time, order, outcome, queue, unit, dep_i,
                   t_start, task_timings, done, join_i, pending_exc>>

\* for f in futures.values(): f.result() blocks until the future is resolved
\* and raises the exception it holds.
JoinNext ==
    /\ pc = "join"
    /\ IF join_i > Len(futures)
       THEN /\ pc' = "shutdown"
            /\ UNCHANGED <<join_i, pending_exc>>
       ELSE LET f == outcome[futures[join_i]] IN
            /\ f # Pending
            /\ IF f = Returned
               THEN /\ join_i' = join_i + 1
                    /\ UNCHANGED <<pc, pending_exc>>
               ELSE /\ pending_exc' = f
                    /\ pc' = "shutdown"
                    /\ UNCHANGED join_i
    /\ UNCHANGED <<mainVars, now, start_time, order, submit_i, futures, outcome, queue, unit,
                   dep_i, t_start, task_timings, done>>

\* A unit holds a worker from the moment a worker takes it off the queue
\* until its future is resolved.
Active == {t \in DOMAIN unit : unit[t] \in {"waiting", "running", "recorded", "finished"}}

\* The end of the with block: shutdown(wait=True) joins the workers, which
\* first finish every unit that was submitted; then the exception, if any,
\* goes on to the caller, else run_tasks returns end_time - start_time.
Shutdown ==
    /\ pc = "shutdown"
    /\ queue = <<>>
    /\ Active = {}
    /\ IF pending_exc # None
       THEN /\ raised' = pending_exc
            /\ pc' = "raised"
            /\ UNCHANGED actual_runtime
       ELSE /\ actual_runtime' = [seconds |-> now - start_time]
            /\ pc' = "exit"
            /\ UNCHANGED raised
    /\ UNCHANGED <<tasks, args, pool, G, validated, expected, execVars>>

\* ------------------------------------------------------------------------
\* run_tasks: the workers, each running submit(task) for one unit at a time
\* ------------------------------------------------------------------------

UnitIs(t, s) == t \in DOMAIN unit /\ unit[t] = s

\* A worker that reads the head of the queue without removing it.
WholeQueue(q) == q

\* The unit a free worker takes: the work queue is first in, first out.
NextUnit(q) == Head(q)
RestOfQueue(q) == Tail(q)

\* A work queue that is last in, first out.
DequeueNewest ==
    /\ queue # <<>>
    /\ Cardinality(Active) < pool
    /\ LET t == queue[Len(queue)] IN
       /\ unit' = [unit EXCEPT ![t] = "waiting"]
       /\ dep_i' = (t :> 1) @@ dep_i
    /\ queue' = SubSeq(queue, 1, Len(queue) - 1)
    /\ UNCHANGED <<pc, mainVars, now, start_time, order, submit_i, futures, outcome, t_start,
                   task_timings, done, join_i, pending_exc>>

\* A pool that runs one unit at a time, whatever its size.
DequeueSerial ==
    /\ queue # <<>>
    /\ Active = {}
    /\ LET t == NextUnit(queue) IN
       /\ unit' = [unit EXCEPT ![t] = "waiting"]
       /\ dep_i' = (t :> 1) @@ dep_i
    /\ queue' = RestOfQueue(queue)
    /\ UNCHANGED <<pc, mainVars, now, start_time, order, submit_i, futures, outcome, t_start,
                   task_timings, done, join_i, pending_exc>>

\* A worker without a unit takes the next one off the work queue.
Dequeue ==
    /\ queue # <<>>
    /\ Cardinality(Active) < pool
    /\ LET t == NextUnit(queue) IN
       /\ unit' = [unit EXCEPT ![t] = "waiting"]
       /\ dep_i' = (t :> 1) @@ dep_i
    /\ queue' = RestOfQueue(queue)
    /\ UNCHANGED <<pc, mainVars, now, start_time, order, submit_i, futures, outcome, t_start,
                   task_timings, done, join_i, pending_exc>>

\* The exception Future.set_exception stores for a unit whose body raised.
SleepError(t) == [state |-> "exception", error |-> "ValueError", task |-> t]
LookupError(t, dep) == [state |-> "exception", error |-> "KeyError", task |-> t, key |-> dep]

\* A lookup that waits for the future and never raises what it holds
\* (concurrent.futures.wait in place of future.result()).
DepResultSwallowed(dep, t) ==
    IF dep \notin Range(futures) THEN LookupError(t, dep)
    ELSE IF outcome[dep] = Pending THEN Pending ELSE Returned

\* A lookup that does not wait: a pending future is taken as one that
\* returned (future.done() in place of future.result()).
DepResultNoWait(dep, t) ==
    IF dep \notin Range(futures) THEN LookupError(t, dep)
    ELSE IF outcome[dep] = Pending THEN Returned ELSE outcome[dep]

\* What futures[dep].result() does for the unit of t: it raises KeyError when
\* no future is stored under dep, blocks while that future is pending,
\* returns when it holds a result and raises the exception it holds.
DepResult(dep, t) ==
    IF dep \notin Range(futures) THEN LookupError(t, dep) ELSE outcome[dep]

\* for dep in deps: futures[dep].result()
WaitOnDep(t) ==
    /\ UnitIs(t, "waiting")
    /\ dep_i[t] <= Len(Deps(t))
    /\ LET r == DepResult(Deps(t)[dep_i[t]], t) IN
       /\ r # Pending
       /\ IF r = Returned
          THEN /\ dep_i' = [dep_i EXCEPT ![t] = @ + 1]
               /\ UNCHANGED <<unit, outcome>>
          ELSE /\ outcome' = [outcome EXCEPT ![t] = r]
               /\ unit' = [unit EXCEPT ![t] = "resolved"]
               /\ UNCHANGED dep_i
    /\ UNCHANGED <<pc, mainVars, now, start_time, order, submit_i, futures, queue, t_start,
                   task_timings, done, join_i, pending_exc>>

\* t_start = time.perf_counter(), once the loop over deps is over
StartRunning(t) ==
    /\ UnitIs(t, "waiting")
    /\ dep_i[t] > Len(Deps(t))
    /\ t_start' = (t :> now) @@ t_start
    /\ unit' = [unit EXCEPT ![t] = "running"]
    /\ UNCHANGED <<pc, mainVars, now, start_time, order, submit_i, futures, outcome, queue,
                   dep_i, task_timings, done, join_i, pending_exc>>

\* time.sleep(duration) raises ValueError on a negative duration and else
\* returns once duration seconds have passed; then t_end is read and the
\* timing stored.
FinishRunning(t) ==
    /\ UnitIs(t, "running")
    /\ IF Duration(t) < 0
       THEN /\ outcome' = [outcome EXCEPT ![t] = SleepError(t)]
            /\ unit' = [unit EXCEPT ![t] = "resolved"]
            /\ UNCHANGED task_timings
       ELSE /\ now >= t_start[t] + Duration(t)
            /\ task_timings' = (t :> [start |-> t_start[t] - start_time,
                                      end |-> now - start_time]) @@ task_timings
            /\ unit' = [unit EXCEPT ![t] = "recorded"]
            /\ UNCHANGED outcome
    /\ UNCHANGED <<pc, mainVars, now, start_time, order, submit_i, futures, queue, dep_i,
                   t_start, done, join_i, pending_exc>>

\* A body that returns after its print without done.add(task).
MarkDoneSkipped(t) ==
    /\ UnitIs(t, "recorded")
    /\ unit' = [unit EXCEPT ![t] = "finished"]
    /\ UNCHANGED <<pc, mainVars, now, start_time, order, submit_i, futures, outcome, queue,
                   dep_i, t_start, task_timings, done, join_i, pending_exc>>

\* print("[-] Finished ..."), which lets other threads run, then
\* done.add(task)
MarkDone(t) ==
    /\ UnitIs(t, "recorded")
    /\ done' = done \cup {t}
    /\ unit' = [unit EXCEPT ![t] = "finished"]
    /\ UNCHANGED <<pc, mainVars, now, start_time, order, submit_i, futures, outcome, queue,
                   dep_i, t_start, task_timings, join_i, pending_exc>>

\* submit(task) returned: the worker resolves the future and is free again.
ResolveFuture(t) ==
    /\ UnitIs(t, "finished")
    /\ outcome' = [outcome EXCEPT ![t] = Returned]
    /\ unit' = [unit EXCEPT ![t] = "resolved"]
    /\ UNCHANGED <<pc, mainVars, now, start_time, order, submit_i, futures, queue, dep_i,
                   t_start, task_timings, done, join_i, pending_exc>>

\* ------------------------------------------------------------------------
\* The clock
\* ------------------------------------------------------------------------

InRunTasks == pc \in {"run_tasks", "submit", "store_future", "join", "shutdown"}

Sleeping(t) == UnitIs(t, "running") /\ Duration(t) >= 0 /\ now < t_start[t] + Duration(t)

\* time.perf_counter() advances: always while some unit sleeps, and up to
\* MaxDelay ticks of its own accord.
Tick ==
    /\ InRunTasks
    /\ \/ \E t \in Keys(tasks) : Sleeping(t)
       \/ now < MaxDelay
    /\ now' = now + 1
    /\ UNCHANGED <<pc, mainVars, start_time, order, submit_i, futures, outcome, queue, unit,
                   dep_i, t_start, task_timings, done, join_i, pending_exc>>

\* ------------------------------------------------------------------------
\* Specifications
\* ------------------------------------------------------------------------

Flags == [validate : BOOLEAN, run : BOOLEAN]

\* The durations written in the task files of the executor specification:
\* sleep() refuses the negative one.
RunDurations == {-1, 1}

\* The whole program on a small task file.
Init ==
    /\ args \in {f \in Flags : f.validate \/ f.run}
    /\ pool \in 1..Len(RunNames)
    /\ InitMain
    /\ InitExec

Parse ==
    \/ ParseRow(RunNames, RunRefs, RunDurations)
    \/ ParseBadRow(RunNames)
    \/ ParseEnd

Worker ==
    \/ Dequeue
    \/ \E t \in Keys(tasks) : WaitOnDep(t)
    \/ \E t \in Keys(tasks) : StartRunning(t)
    \/ \E t \in Keys(tasks) : FinishRunning(t)
    \/ \E t \in Keys(tasks) : MarkDone(t)
    \/ \E t \in Keys(tasks) : ResolveFuture(t)

Next ==
    \/ Parse
    \/ MainBuildGraph
    \/ MainValidate
    \/ MainRunValidate
    \/ RunTasksBegin
    \/ ExecutorSubmit
    \/ StoreFuture
    \/ JoinNext
    \/ Shutdown
    \/ Worker
    \/ Tick

Spec == Init /\ [][Next]_vars

\* The steps inside the with block of run_tasks: its main thread, its
\* workers and the clock.
Executor ==
    \/ ExecutorSubmit
    \/ StoreFuture
    \/ JoinNext
    \/ Shutdown
    \/ Worker
    \/ Tick

\* Inside the with block a thread that can take a step is scheduled in the
\* end, and time passes.
FairSpec == Spec /\ WF_vars(Executor)

\* The analysis alone (--validate), over durations 0..MaxDuration.
InitAnalyze ==
    /\ args = [validate |-> TRUE, run |-> FALSE]
    /\ pool = 1
    /\ InitMain
    /\ InitExec

ParseAnalyze ==
    \/ ParseRow(AnalyzeNames, MaxRefs, 0..MaxDuration)
    \/ ParseBadRow(AnalyzeNames)
    \/ ParseEnd

NextAnalyze == ParseAnalyze \/ MainBuildGraph \/ MainValidate

SpecAnalyze == InitAnalyze /\ [][NextAnalyze]_vars

\* Largest duration in the task files of the idealized-clock specification.
MaxSleep == 2

\* A step of the main thread or of a worker inside run_tasks that takes no
\* time: everything but a sleep that is not over and a wait on a future.
Instant ==
    \/ ExecutorSubmit
    \/ StoreFuture
    \/ JoinNext
    \/ Shutdown
    \/ Worker

\* The idealized clock: time.perf_counter() advances only while every
\* thread is asleep or blocked, and some unit is asleep.
IdealTick ==
    /\ InRunTasks
    /\ \E t \in Keys(tasks) : Sleeping(t)
    /\ ~ENABLED Instant
    /\ now' = now + 1
    /\ UNCHANGED <<pc, mainVars, start_time, order, submit_i, futures, outcome, queue, unit,
                   dep_i, t_start, task_timings, done, join_i, pending_exc>>

\* --run alone, under the idealized clock.
InitIdeal ==
    /\ args = [validate |-> FALSE, run |-> TRUE]
    /\ pool \in 1..Len(RunNames)
    /\ InitMain
    /\ InitExec

ParseIdeal ==
    \/ ParseRow(RunNames, RunRefs, 0..MaxSleep)
    \/ ParseEnd

NextIdeal ==
    \/ ParseIdeal
    \/ MainBuildGraph
    \/ MainRunValidate
    \/ RunTasksBegin
    \/ Instant
    \/ IdealTick

SpecIdeal == InitIdeal /\ [][NextIdeal]_vars

\* ------------------------------------------------------------------------
\* Properties
\* ------------------------------------------------------------------------

\* The offsets run_tasks records are taken from start_time.
Offset(t) == t - start_time

\* C1: a task that has read its start timestamp has every task of its
\* dependency list in done, with an end offset recorded that is not later
\* than its own start; so in task_timings the start offset of a task is at
\* least the end offset of each of its dependencies.
C1_StartAfterDependencies ==
    /\ \A t \in DOMAIN t_start : \A d \in Range(Deps(t)) :
          /\ d \in done
          /\ d \in DOMAIN task_timings
          /\ task_timings[d].end <= Offset(t_start[t])
    /\ \A t \in DOMAIN task_timings : \A d \in Range(Deps(t)) :
          /\ d \in DOMAIN task_timings
          /\ task_timings[t].start >= task_timings[d].end

\* A run on one worker and three tasks in which a task with two dependencies
\* has its timing recorded, after a dependency that really slept.
C1_Witness ==
    /\ pool = 1
    /\ Len(tasks) = 3
    /\ \E t \in DOMAIN task_timings :
          /\ Len(Deps(t)) = 2
          /\ \E d \in Range(Deps(t)) : task_timings[d].end > task_timings[d].start

\* Every duration of the registry is a non-negative integer, as a TaskSpec
\* requires.
ValidDurations == \A i \in 1..Len(tasks) : tasks[i].duration >= 0

\* Every worker of the pool holds a unit that waits for a dependency no
\* worker has taken yet.
Starved ==
    /\ Cardinality(Active) = pool
    /\ \A t \in Active :
          /\ unit[t] = "waiting"
          /\ dep_i[t] <= Len(Deps(t))
          /\ LET d == Deps(t)[dep_i[t]] IN d \notin DOMAIN unit \/ unit[d] = "queued"

\* C2: whatever the size of the pool, no state has all workers held by units
\* that wait for a dependency still on the queue, and once run_tasks has
\* opened its pool over tasks of non-negative duration, it returns in the end
\* with every task in done.
C2_NoStarvationDeadlock ==
    /\ []~Starved
    /\ [](pc = "submit" /\ ValidDurations
            => <>(pc = "exit" /\ actual_runtime # None /\ done = Keys(tasks)))

\* A run of three tasks on one worker ended, each task done, one of them
\* depending on the two others.
C2_Witness ==
    /\ pc = "exit"
    /\ pool = 1
    /\ Len(tasks) = 3
    /\ done = Keys(tasks)
    /\ \E t \in Keys(tasks) : Len(Deps(t)) = 2

\* ------------------------------------------------------------------------
\* The dependency relation of the registry, read from the rows themselves
\* ------------------------------------------------------------------------

\* u is listed among the dependencies of v: u must finish before v starts.
DepEdge(u, v) == v \in Keys(tasks) /\ u \in Range(Deps(v))

Max(S) == CHOOSE x \in S : \A y \in S : x >= y

RECURSIVE Weight(_)
Weight(p) == IF p = <<>> THEN 0 ELSE Duration(Head(p)) + Weight(Tail(p))

\* The directed paths of at most k nodes.
RECURSIVE PathsUpTo(_)
PathsUpTo(k) ==
    IF k <= 1 THEN {<<u>> : u \in Keys(tasks)}
    ELSE LET P == PathsUpTo(k - 1) IN
         P \cup UNION {{Append(p, v) : v \in {w \in Keys(tasks) : DepEdge(p[Len(p)], w)}}
                       : p \in {q \in P : Len(q) = k - 1}}

AllPaths == PathsUpTo(Len(tasks))

\* The tasks reached from the tasks of S along at most k further edges.
RECURSIVE Closure(_, _)
Closure(S, k) ==
    IF k = 0 THEN S
    ELSE Closure(S \cup {v \in Keys(tasks) : \E u \in S : DepEdge(u, v)}, k - 1)

\* The direct and transitive dependents of u.
Dependents(u) == Closure({v \in Keys(tasks) : DepEdge(u, v)}, Len(tasks))

Cyclic == \E u \in Keys(tasks) : u \in Dependents(u)

\* The earliest finish of a task: its duration after the latest earliest
\* finish among its dependencies.
RECURSIVE EarliestFinish(_)
EarliestFinish(u) ==
    Duration(u) + (IF Deps(u) = <<>> THEN 0
                   ELSE Max({EarliestFinish(d) : d \in Range(Deps(u))}))

\* The dependency cells that name no row, by row and position.
BadRefs ==
    {r \in (1..Len(tasks)) \X (1..Len(AllNames)) :
        /\ r[2] <= Len(tasks[r[1]].deps)
        /\ tasks[r[1]].deps[r[2]] \notin Keys(tasks)}

FirstBadRef ==
    CHOOSE r \in BadRefs :
        \A q \in BadRefs : r[1] < q[1] \/ (r[1] = q[1] /\ r[2] <= q[2])

ParseFailed == "message" \in DOMAIN raised /\ raised.message = "invalid literal for int()"

CycleError == [error |-> "ValueError", message |-> "Cycle detected in task dependencies"]

\* validate_graph has returned its pair to main.
Analysed == pc = "exit" /\ validated # None

\* C3: over non-negative durations the expected_runtime validate_graph
\* returns is the largest sum of durations along a directed path of the graph.
C3_LongestWeightedPath ==
    Analysed /\ ValidDurations
        => validated.expected_runtime = Max({Weight(p) : p \in AllPaths})

\* An analysis in which a path of more nodes than the returned one weighs
\* less than it.
C3_Witness ==
    /\ Analysed
    /\ \E q \in AllPaths :
          /\ Len(q) > Len(validated.path)
          /\ Weight(q) < validated.expected_runtime

\* C4: the path validate_graph returns starts at a task without
\* dependencies, goes along dependency -> dependent edges, ends at a task of
\* largest earliest finish, and its durations add up to expected_runtime.
C4_PathIsCritical ==
    Analysed =>
        LET p == validated.path IN
        /\ p # <<>>
        /\ Deps(p[1]) = <<>>
        /\ \A i \in 1..(Len(p) - 1) : DepEdge(p[i], p[i + 1])
        /\ \A u \in Keys(tasks) : EarliestFinish(p[Len(p)]) >= EarliestFinish(u)
        /\ Weight(p) = validated.expected_runtime

\* A returned path of three tasks, one of which has two dependencies.
C4_Witness ==
    /\ Analysed
    /\ Len(validated.path) = 3
    /\ \E i \in 1..3 : Len(Deps(validated.path[i])) = 2

\* C5: on a graph with a cycle, of any length and anywhere, validate_graph
\* raises the cycle error and returns no pair.
C5_CycleRejected ==
    pc \in {"exit", "raised"} /\ G # None /\ Cyclic
        => pc = "raised" /\ raised = CycleError /\ validated = None

\* The cycle error on a task that depends on itself, beside a task that is on
\* no cycle.
C5_Witness ==
    /\ pc = "raised"
    /\ raised = CycleError
    /\ \E u \in Keys(tasks) : DepEdge(u, u)
    /\ \E v \in Keys(tasks) : v \notin Dependents(v)

\* C6: build_graph fails on a registry with an unregistered dependency name,
\* reporting the first such (task, name) in the order of rows and cells and
\* returning no graph; else it returns a graph with one node per task, its
\* duration, and one edge dependency -> task per reference.
C6_BuildGraph ==
    pc \notin {"parse_tasks", "build_graph"} /\ ~ParseFailed =>
        IF BadRefs # {}
        THEN /\ pc = "raised"
             /\ G = None
             /\ raised = [error |-> "ValueError",
                          task |-> tasks[FirstBadRef[1]].name,
                          missing |-> tasks[FirstBadRef[1]].deps[FirstBadRef[2]]]
        ELSE /\ G # None
             /\ Len(G.nodes) = Len(tasks)
             /\ Range(G.nodes) = Keys(tasks)
             /\ \A t \in Keys(tasks) : G.duration[t] = Duration(t)
             /\ Edges(G) = {e \in Keys(tasks) \X Keys(tasks) : DepEdge(e[1], e[2])}
             /\ \A u \in Keys(tasks), v \in Keys(tasks) :
                   v \in Range(G.succ[u]) <=> u \in Range(G.pred[v])

\* build_graph failed on a registry with unregistered names in two rows.
C6_Witness ==
    /\ pc = "raised"
    /\ ~ParseFailed
    /\ \E r \in BadRefs, q \in BadRefs : r[1] # q[1]

\* Nothing of run_tasks has happened: no unit submitted, started or timed.
NothingExecuted ==
    /\ unit = <<>>
    /\ queue = <<>>
    /\ futures = <<>>
    /\ outcome = <<>>
    /\ t_start = <<>>
    /\ task_timings = <<>>
    /\ done = {}

\* C7: with an unregistered dependency or a cycle in the task set, main never
\* gets past build_graph and validate_graph: the error leaves main before any
\* unit is submitted, started or timed.
C7_StructuralErrorsAbortFirst ==
    pc # "parse_tasks" /\ ~ParseFailed /\ (BadRefs # {} \/ Cyclic) =>
        /\ pc \in {"build_graph", "validate", "run_validate", "raised"}
        /\ NothingExecuted
        /\ pc = "raised" =>
              \/ raised = CycleError
              \/ raised = [error |-> "ValueError",
                           task |-> tasks[FirstBadRef[1]].name,
                           missing |-> tasks[FirstBadRef[1]].deps[FirstBadRef[2]]]

\* The cycle error raised by the --run branch itself, on a task file that
\* also holds a task outside the cycle.
C7_Witness ==
    /\ args.run /\ ~args.validate
    /\ pc = "raised"
    /\ raised = CycleError
    /\ \E v \in Keys(tasks) : v \notin Dependents(v) /\ Deps(v) = <<>>

\* The body of the unit of t raised: its future holds an exception of its own.
WorkFailed(t) ==
    /\ t \in DOMAIN outcome
    /\ outcome[t].state = "exception"
    /\ outcome[t].task = t

\* C8: once the work of a task has failed, none of its direct or transitive
\* dependents has read a start timestamp, and none ever does.
C8_DependentsNeverStart ==
    \A t \in Keys(tasks) : WorkFailed(t) =>
        \A u \in Dependents(t) : u \notin DOMAIN t_start /\ u \notin done

\* On one worker, a task failed and a task that depends on it only through a
\* third one was resolved with that failure without having started.
C8_Witness ==
    /\ pool = 1
    /\ \E t \in Keys(tasks) : \E u \in Dependents(t) :
          /\ WorkFailed(t)
          /\ ~DepEdge(t, u)
          /\ UnitIs(u, "resolved")
          /\ outcome[u] = outcome[t]
          /\ u \notin DOMAIN t_start

\* run_tasks was left by the exception of a future.
RaisedByRun == pc = "raised" /\ pending_exc # None

\* A task that neither fails itself nor depends on one that does.
Unrelated(t) ==
    /\ Duration(t) >= 0
    /\ \A a \in Keys(tasks) : Duration(a) < 0 => t \notin Dependents(a)

\* C9: once the pool is open run_tasks comes to an end, and when it ends on
\* a failure every unit is resolved, the dependents of a failed task are
\* failed without having started, every unrelated task is done, and the one
\* exception handed to the caller accounts for every task whose work failed.
C9_SingleAggregatedFailure ==
    /\ [](pc = "submit" => <>(pc \in {"exit", "raised"}))
    /\ [](RaisedByRun =>
            /\ \A t \in Keys(tasks) : UnitIs(t, "resolved")
            /\ \A t \in Keys(tasks) : WorkFailed(t) =>
                  \A u \in Dependents(t) :
                     outcome[u].state = "exception" /\ u \notin DOMAIN t_start
            /\ \A t \in Keys(tasks) : Unrelated(t) =>
                  t \in done /\ outcome[t] = Returned
            /\ raised = pending_exc
            /\ {t \in Keys(tasks) : WorkFailed(t)} = {raised.task})

\* C11: under the idealized clock and with a worker for every task, what
\* run_tasks returns is the expected_runtime of validate_graph.
C11_ElapsedIsExpected ==
    pc = "exit" /\ actual_runtime # None /\ pool >= Len(tasks) =>
        actual_runtime.seconds = expected.expected_runtime

\* Two tasks without a path between them, of different durations, ran in the
\* time of the longer one.
C11_Witness ==
    /\ pc = "exit"
    /\ actual_runtime # None
    /\ pool >= Len(tasks)
    /\ \E u \in Keys(tasks), v \in Keys(tasks) :
          /\ u # v
          /\ v \notin Dependents(u) /\ u \notin Dependents(v)
          /\ 0 < Duration(u) /\ Duration(u) < Duration(v)
          /\ actual_runtime.seconds = Duration(v)

\* Some row of the registry carries a negative duration.
NegativeDuration == \E i \in 1..Len(tasks) : tasks[i].duration < 0

\* C12: a registry with a negative duration goes no further than parse_tasks:
\* main ends there on the error of the duration, with no graph built, no
\* analysis made and nothing executed.
C12_NegativeDurationRejected ==
    NegativeDuration =>
        /\ pc \in {"parse_tasks", "raised"}
        /\ pc = "raised" => ParseFailed
        /\ G = None
        /\ validated = None
        /\ expected = None
        /\ NothingExecuted

\* The first position of seq whose element has the largest key.
FirstMaxPos(seq, key) ==
    CHOOSE i \in 1..Len(seq) :
        /\ \A j \in 1..Len(seq) : key[seq[j]] <= key[seq[i]]
        /\ \A j \in 1..(i - 1) : key[seq[j]] < key[seq[i]]

\* The earliest finish of every task, from the rows.
Finish == [u \in Keys(tasks) |-> EarliestFinish(u)]

\* earliest_finish and parent as the loop of validate_graph leaves them.
Passed(H) ==
    ForwardPass(H, topological_sort(H),
                [earliest_finish |-> <<>>, parent |-> <<>>, order |-> <<>>])

\* C13: the parent of a node is the first of its predecessors, in the order
\* the graph lists them, among those of largest earliest finish; the path
\* ends at the first node, in topological order, among those of largest
\* earliest finish.
C13_StableTieBreak ==
    Analysed =>
        LET st == Passed(G)
            topo == topological_sort(G)
        IN /\ \A u \in Keys(tasks) :
                 st.parent[u] = IF G.pred[u] = <<>> THEN NoName
                                ELSE G.pred[u][FirstMaxPos(G.pred[u], Finish)]
           /\ validated.path[Len(validated.path)] = topo[FirstMaxPos(topo, Finish)]

\* Two predecessors of a node tie for its parent, and a later node of the
\* topological order ties with the end of the path.
C13_Witness ==
    /\ Analysed
    /\ \E u \in Keys(tasks) :
          /\ Len(G.pred[u]) = 2
          /\ Finish[G.pred[u][1]] = Finish[G.pred[u][2]]
    /\ \E v \in Keys(tasks) :
          /\ v # validated.path[Len(validated.path)]
          /\ Finish[v] = validated.expected_runtime

\* The orderings of the elements of seq.
Perms(seq) ==
    {p \in [1..Len(seq) -> Range(seq)] :
        \A i \in 1..Len(seq), j \in 1..Len(seq) : i # j => p[i] # p[j]}

\* Every topological order of H: no node before one of its predecessors.
TopoOrders(H) ==
    {p \in Perms(H.nodes) :
        \A i \in 1..Len(p), j \in 1..Len(p) : i < j => p[j] \notin Range(H.pred[p[i]])}

\* H with its predecessor lists in every order: every choice among
\* predecessors that tie.
PredOrders(H) ==
    {[H EXCEPT !.pred = f] :
        f \in {g \in [DOMAIN H.pred -> UNION {Perms(H.pred[n]) : n \in DOMAIN H.pred}] :
                 \A n \in DOMAIN H.pred : g[n] \in Perms(H.pred[n])}}

\* The loop of validate_graph over another topological order.
PassedOver(H, topo) ==
    ForwardPass(H, topo, [earliest_finish |-> <<>>, parent |-> <<>>, order |-> <<>>])

\* C14: whatever topological order the loop of validate_graph follows,
\* whichever of the tying predecessors it meets first and whichever of the
\* tying nodes it ends at, the runtime it arrives at is the one returned.
C14_RuntimeIndependentOfOrder ==
    Analysed =>
        \A topo \in TopoOrders(G), H \in PredOrders(G) :
            LET st == PassedOver(H, topo) IN
            /\ st.earliest_finish[MaxByKey(st.order, st.earliest_finish)]
                  = validated.expected_runtime
            /\ st.earliest_finish[LastMaxByKey(st.order, st.earliest_finish)]
                  = validated.expected_runtime

\* Another topological order and another order of the predecessors lead to
\* another path than the one returned.
C14_Witness ==
    /\ Analysed
    /\ Len(validated.path) >= 2
    /\ \E topo \in TopoOrders(G), H \in PredOrders(G) :
          LET st == PassedOver(H, topo) IN
          /\ topo # topological_sort(G)
          /\ H # G
          /\ Backtrack(st.parent, MaxByKey(st.order, st.earliest_finish)) # validated.path

\* C15: when run_tasks returns, task_timings has an entry for every task of
\* the registry and for nothing else, and done is the set of all tasks; an
\* entry of task_timings is written by a step of the unit of its key, from
\* that unit's own start, and is never written again; a task enters done by
\* a step of its own unit, after its timing is stored.
C15_EveryUnitDoneOnReturn ==
    [][/\ pc' = "exit" /\ actual_runtime' # None =>
             /\ DOMAIN task_timings' = Keys(tasks)
             /\ done' = Keys(tasks)
       /\ \A t \in DOMAIN task_timings' :
             IF t \in DOMAIN task_timings
             THEN task_timings'[t] = task_timings[t]
             ELSE /\ UnitIs(t, "running")
                  /\ unit'[t] = "recorded"
                  /\ task_timings'[t].start = Offset(t_start[t])
                  /\ DOMAIN task_timings' = DOMAIN task_timings \cup {t}
                  /\ done' = done
       /\ \A t \in done' \ done :
             /\ UnitIs(t, "recorded")
             /\ unit'[t] = "finished"
             /\ t \in DOMAIN task_timings
             /\ done' = done \cup {t}]_vars

\* run_tasks returned after three units wrote their timings, two of them
\* with the same start.
C15_Witness ==
    /\ pc = "exit"
    /\ actual_runtime # None
    /\ Len(tasks) = 3
    /\ DOMAIN task_timings = Keys(tasks)
    /\ pool > 1
    /\ \E u \in Keys(tasks), v \in Keys(tasks) :
          u # v /\ task_timings[u].start = task_timings[v].start

\* C16: the units are handed over in a topological order, and from the
\* moment a unit is on the queue every name of its dependency list has its
\* future stored, so no lookup futures[dep] ever fails.
C16_FutureStoredBeforeLookup ==
    /\ \A i \in 1..Len(order), j \in 1..Len(order) :
          i < j => ~DepEdge(order[j], order[i])
    /\ \A t \in DOMAIN unit : \A k \in 1..Len(Deps(t)) : Deps(t)[k] \in Range(futures)
    /\ \A t \in DOMAIN outcome :
          outcome[t].state = "exception" => outcome[t].error # "KeyError"

\* While the main thread has not yet stored the future of the unit it just
\* submitted, that unit already waits on a dependency that is running.
C16_Witness ==
    /\ pc = "store_future"
    /\ \E t \in Keys(tasks) :
          /\ UnitIs(t, "waiting")
          /\ t \notin Range(futures)
          /\ dep_i[t] <= Len(Deps(t))
          /\ UnitIs(Deps(t)[dep_i[t]], "running")

\* The unit of t has been taken off the work queue.
Dequeued(t) == t \in DOMAIN unit /\ unit[t] # "queued"

OnQueue(t) == UnitIs(t, "queued")

\* C17: the units that wait on dependencies, run or return are never more
\* than the pool has workers, and the queue holds the units not yet taken in
\* the order of their submission: a unit is taken only after every unit
\* submitted before it.
C17_WorkerHeldInOrder ==
    /\ Cardinality(Active) <= pool
    /\ \A i \in 1..Len(order), j \in 1..Len(order) :
          i < j /\ Dequeued(order[j]) => Dequeued(order[i])
    /\ queue = SelectSeq(order, OnQueue)

\* Both workers of a pool of two are held, one by a unit blocked on the
\* dependency the other runs, while a third unit is on the queue.
C17_Witness ==
    /\ pool = 2
    /\ Cardinality(Active) = 2
    /\ queue # <<>>
    /\ \E t \in Active :
          /\ unit[t] = "waiting"
          /\ dep_i[t] <= Len(Deps(t))
          /\ UnitIs(Deps(t)[dep_i[t]], "running")

\* How far the unit of t has come.
Rank(u, t) ==
    IF t \notin DOMAIN u THEN 0
    ELSE CASE u[t] = "queued" -> 1
           [] u[t] = "waiting" -> 2
           [] u[t] = "running" -> 3
           [] u[t] = "recorded" -> 4
           [] u[t] = "finished" -> 5
           [] u[t] = "resolved" -> 6

\* C18: the unit of a task only moves forward, one stage at a time or out
\* on an exception; a task is submitted once, reads its start once, stays in
\* done once it is there, and when run_tasks returns every task has run its
\* body.
C18_ForwardOnly ==
    [][/\ \A t \in Keys(tasks) :
             /\ Rank(unit', t) >= Rank(unit, t)
             /\ Rank(unit', t) # Rank(unit, t) =>
                   \/ Rank(unit', t) = Rank(unit, t) + 1
                   \/ unit'[t] = "resolved" /\ outcome'[t].state = "exception"
             /\ Rank(unit', t) = 3 /\ Rank(unit, t) # 3 =>
                   t \notin DOMAIN t_start /\ t \in DOMAIN t_start'
             /\ t \in DOMAIN t_start =>
                   t \in DOMAIN t_start' /\ t_start'[t] = t_start[t]
             /\ t \in done => t \in done'
             /\ Cardinality({i \in 1..Len(queue') : queue'[i] = t})
                   + (IF Dequeued(t) THEN 1 ELSE 0) <= 1
       /\ pc' = "join" =>
             \A t \in Keys(tasks) : Cardinality({i \in 1..Len(futures') : futures'[i] = t}) = 1
       /\ pc' = "exit" /\ actual_runtime' # None =>
             \A t \in Keys(tasks) :
                Rank(unit', t) = 6 /\ t \in DOMAIN t_start' /\ t \in done'
      ]_vars

\* A unit that waited on a dependency, ran and is done, after run_tasks
\* returned.
C18_Witness ==
    /\ pc = "exit"
    /\ actual_runtime # None
    /\ \E t \in Keys(tasks) :
          /\ Deps(t) # <<>>
          /\ UnitIs(t, "resolved")
          /\ t \in done
          /\ task_timings[t].end > task_timings[t].start

\* C19: on the graph of a task file without rows validate_graph returns no
\* pair: the graph passes for acyclic, and main ends on a ValueError that is
\* not the cycle error.
C19_EmptyGraphRaises ==
    pc \in {"exit", "raised"} /\ G # None /\ tasks = <<>> =>
        /\ G.nodes = <<>>
        /\ pc = "raised"
        /\ validated = None
        /\ expected = None
        /\ raised.error = CycleError.error
        /\ raised # CycleError

\* main ended on the error of the analysis of a graph without nodes.
C19_Witness ==
    /\ pc = "raised"
    /\ tasks = <<>>
    /\ G # None
    /\ G.nodes = <<>>
    /\ "message" \in DOMAIN raised

====
